---- MODULE Spec2Model ----
(***************************************************************************)
(* Model of projectweek2.ino: an Arduino sketch that starts an OLED        *)
(* display, a button-gated radio lock-out, an RFM69 radio and then polls   *)
(* the radio for frames, showing the RSSI of each valid frame.             *)
(*                                                                         *)
(* The sketch is sequential: pc is the statement about to execute.  The    *)
(* library calls whose results the sketch branches on (display.begin,      *)
(* digitalRead, rf69.init, rf69.available, rf69.recv, rf69.lastRssi) are   *)
(* inputs, drawn with \E at the statement that makes the call.             *)
(***************************************************************************)
EXTENDS Integers, Sequences, FiniteSets

VARIABLES
    pc,         \* the statement about to execute
    pinModes,   \* pin -> "unset" | "OUTPUT" | "INPUT_PULLUP"
    out,        \* output pin -> PWM duty 0..PWM_MAX (digital LOW = 0, HIGH = PWM_MAX)
    elapsed,    \* ms spent in delay() since the last pin write
    butA,       \* what digitalRead(PW_BUTA) returned: "unsampled" | "LOW" | "HIGH"
    dispBegin,  \* what display.begin() returned: "none" | "ok" | "failed"
    buf,        \* the display library's frame buffer
    oled,       \* what the panel shows (the buffer at the last display.display())
    serial,     \* [begun, last]: Serial opened, last line printed (<<>> if none)
    radio,      \* [init, freq, power, modem, key, sent]
    rssi_val,   \* loop_receiver's local: <<>> while unassigned, <<v>> once assigned
    events,     \* the calls made so far in the current loop() iteration
    atEntry,    \* out, oled and serial as they were when the iteration began
    validSeen   \* some iteration so far received a valid frame

vars == <<pc, pinModes, out, elapsed, butA, dispBegin, buf, oled, serial, radio,
          rssi_val, events, atEntry, validSeen>>

----------------------------------------------------------------------------
(* Program constants *)

LED_LOW == 10
LED_HIGH == 60
PWM_MAX == 255
SCREEN_WIDTH == 96

OutPins == {"RED_LED", "GRN_LED", "BI_LEDA", "BI_LEDB", "RFM69_RST"}
Pins == OutPins \cup {"PW_BUTA"}

\* The values rf69.lastRssi() can return: minus half of an 8-bit register.
RssiValues == (-127)..0

\* digitalWrite drives the pin fully on or fully off.
DigitalDuty(level) == IF level = "HIGH" THEN PWM_MAX ELSE 0

\* C integer division, truncating toward zero.
TruncDiv(a, b) ==
    IF (a >= 0) = (b > 0) THEN (IF a >= 0 THEN a ELSE -a) \div (IF b > 0 THEN b ELSE -b)
    ELSE -((IF a >= 0 THEN a ELSE -a) \div (IF b > 0 THEN b ELSE -b))

\* Arduino's map(): linear re-scaling in integer arithmetic, no clamping.
map(x, in_min, in_max, out_min, out_max) ==
    TruncDiv((x - in_min) * (out_max - out_min), in_max - in_min) + out_min

Blank == [kind |-> "blank", bar |-> 0, num |-> 0]

----------------------------------------------------------------------------
(* Initial state: power-on reset, before setup() *)

Init ==
    /\ pc = "setup"
    /\ pinModes = [p \in Pins |-> "unset"]
    /\ out = [p \in OutPins |-> 0]
    /\ elapsed = 0
    /\ butA = "unsampled"
    /\ dispBegin = "none"
    /\ buf = [kind |-> "off", bar |-> 0, num |-> 0]
    /\ oled = [kind |-> "off", bar |-> 0, num |-> 0]
    /\ serial = [begun |-> FALSE, last |-> <<>>]
    /\ radio = [init |-> "none", freq |-> "unset", power |-> "unset",
                modem |-> "unset", key |-> "unset", sent |-> FALSE]
    /\ rssi_val = <<>>
    /\ events = <<>>
    /\ atEntry = [out |-> out, oled |-> oled, serial |-> serial]
    /\ validSeen = FALSE

----------------------------------------------------------------------------
(* Helpers shared by the statements *)

\* digitalWrite / analogWrite: the pin's duty changes now.
Write(pin, duty) == out' = [out EXCEPT ![pin] = duty] /\ elapsed' = 0

\* delay(ms)
Delay(ms) == elapsed' = elapsed + ms

\* One logged call of the current loop() iteration.
Ev(call, arg) == [call |-> call, arg |-> arg]

Log(call, arg) == events' = Append(events, Ev(call, arg))

----------------------------------------------------------------------------
(* setup() *)

\* Mutant of SetupDisplay: the result of display.begin() is ignored.
SetupDisplay_IgnoresFailure ==
    /\ pc = "setup"
    /\ \E ok \in BOOLEAN :
        /\ dispBegin' = IF ok THEN "ok" ELSE "failed"
        /\ buf' = Blank
        /\ oled' = Blank
        /\ pc' = "pins"
    /\ UNCHANGED <<pinModes, out, elapsed, butA, serial, radio, rssi_val, events,
                   atEntry, validSeen>>

\* if (!display.begin(..)) for(;;);  display.clearDisplay(); display.display();
SetupDisplay ==
    /\ pc = "setup"
    /\ \E ok \in BOOLEAN :
        IF ok
        THEN /\ dispBegin' = "ok"
             /\ buf' = Blank
             /\ oled' = Blank
             /\ pc' = "pins"
        ELSE /\ dispBegin' = "failed"
             /\ pc' = "halt"
             /\ UNCHANGED <<buf, oled>>
    /\ UNCHANGED <<pinModes, out, elapsed, butA, serial, radio, rssi_val, events,
                   atEntry, validSeen>>

\* for (;;);  the sketch spins here for ever
DisplayHalt ==
    /\ pc = "halt"
    /\ UNCHANGED vars

\* pinMode(..) for the four LEDs, button A and the radio reset line
SetupPins ==
    /\ pc = "pins"
    /\ pinModes' = [p \in Pins |-> IF p = "PW_BUTA" THEN "INPUT_PULLUP" ELSE "OUTPUT"]
    /\ pc' = "leds_off"
    /\ UNCHANGED <<out, elapsed, butA, dispBegin, buf, oled, serial, radio, rssi_val,
                   events, atEntry, validSeen>>

\* Mutant of SetupLedsOff: the start-up goes on without the button interlock.
SetupLedsOff_SkipsInterlock ==
    /\ pc = "leds_off"
    /\ out' = [p \in OutPins |-> DigitalDuty("LOW")]
    /\ elapsed' = 0
    /\ pc' = "serial"
    /\ UNCHANGED <<pinModes, butA, dispBegin, buf, oled, serial, radio, rssi_val,
                   events, atEntry, validSeen>>

\* digitalWrite(.., LOW) for the four LEDs and the radio reset line
SetupLedsOff ==
    /\ pc = "leds_off"
    /\ out' = [p \in OutPins |-> DigitalDuty("LOW")]
    /\ elapsed' = 0
    /\ pc' = "button"
    /\ UNCHANGED <<pinModes, butA, dispBegin, buf, oled, serial, radio, rssi_val,
                   events, atEntry, validSeen>>

\* Mutant of ButtonCheck: the button is read but the start-up goes on regardless.
ButtonCheck_Ignored ==
    /\ pc = "button"
    /\ \E level \in {"LOW", "HIGH"} : butA' = level
    /\ pc' = "serial"
    /\ UNCHANGED <<pinModes, out, elapsed, dispBegin, buf, oled, serial, radio,
                   rssi_val, events, atEntry, validSeen>>

\* if (digitalRead(PW_BUTA) == LOW) { lock-out } else continue with the start-up
ButtonCheck ==
    /\ pc = "button"
    /\ \E level \in {"LOW", "HIGH"} :
        /\ butA' = level
        /\ pc' = IF level = "LOW" THEN "lockout_msg" ELSE "serial"
    /\ UNCHANGED <<pinModes, out, elapsed, dispBegin, buf, oled, serial, radio,
                   rssi_val, events, atEntry, validSeen>>

\* clearDisplay .. println("Radio DISABLED"); display.display();
LockoutMessage ==
    /\ pc = "lockout_msg"
    /\ buf' = [kind |-> "Radio DISABLED", bar |-> 0, num |-> 0]
    /\ oled' = buf'
    /\ pc' = "flash_high"
    /\ UNCHANGED <<pinModes, out, elapsed, butA, dispBegin, serial, radio, rssi_val,
                   events, atEntry, validSeen>>

\* digitalWrite(RED_LED, HIGH);
FlashHigh ==
    /\ pc = "flash_high"
    /\ Write("RED_LED", DigitalDuty("HIGH"))
    /\ pc' = "flash_delay1"
    /\ UNCHANGED <<pinModes, butA, dispBegin, buf, oled, serial, radio, rssi_val,
                   events, atEntry, validSeen>>

\* delay(250);
FlashDelay1 ==
    /\ pc = "flash_delay1"
    /\ Delay(250)
    /\ pc' = "flash_low"
    /\ UNCHANGED <<pinModes, out, butA, dispBegin, buf, oled, serial, radio, rssi_val,
                   events, atEntry, validSeen>>

\* Mutant of FlashLow: the second write of the flash loop writes HIGH again.
FlashLow_StaysHigh ==
    /\ pc = "flash_low"
    /\ Write("RED_LED", DigitalDuty("HIGH"))
    /\ pc' = "flash_delay2"
    /\ UNCHANGED <<pinModes, butA, dispBegin, buf, oled, serial, radio, rssi_val,
                   events, atEntry, validSeen>>

\* digitalWrite(RED_LED, LOW);
FlashLow ==
    /\ pc = "flash_low"
    /\ Write("RED_LED", DigitalDuty("LOW"))
    /\ pc' = "flash_delay2"
    /\ UNCHANGED <<pinModes, butA, dispBegin, buf, oled, serial, radio, rssi_val,
                   events, atEntry, validSeen>>

\* delay(250); and round the for(;;) again
FlashDelay2 ==
    /\ pc = "flash_delay2"
    /\ Delay(250)
    /\ pc' = "flash_high"
    /\ UNCHANGED <<pinModes, out, butA, dispBegin, buf, oled, serial, radio, rssi_val,
                   events, atEntry, validSeen>>

\* Serial.begin(115200); delay(1000);
SerialBegin ==
    /\ pc = "serial"
    /\ serial' = [serial EXCEPT !.begun = TRUE]
    /\ Delay(1000)
    /\ pc' = "radio_init"
    /\ UNCHANGED <<pinModes, out, butA, dispBegin, buf, oled, radio, rssi_val, events,
                   atEntry, validSeen>>

\* Mutant of RadioInit: the green LED is lit whatever rf69.init() returns.
RadioInit_AlwaysLights ==
    /\ pc = "radio_init"
    /\ \E ok \in BOOLEAN :
        /\ radio' = [radio EXCEPT !.init = IF ok THEN "ok" ELSE "failed"]
        /\ Write("GRN_LED", LED_LOW)
    /\ pc' = "set_freq"
    /\ UNCHANGED <<pinModes, butA, dispBegin, buf, oled, serial, rssi_val, events,
                   atEntry, validSeen>>

\* digitalWrite(GRN_LED, LOW); if (rf69.init()) analogWrite(GRN_LED, LED_LOW);
RadioInit ==
    /\ pc = "radio_init"
    /\ \E ok \in BOOLEAN :
        /\ radio' = [radio EXCEPT !.init = IF ok THEN "ok" ELSE "failed"]
        /\ Write("GRN_LED", IF ok THEN LED_LOW ELSE DigitalDuty("LOW"))
    /\ pc' = "set_freq"
    /\ UNCHANGED <<pinModes, butA, dispBegin, buf, oled, serial, rssi_val, events,
                   atEntry, validSeen>>

\* rf69.setFrequency(RF69_FREQ);
SetFrequency ==
    /\ pc = "set_freq"
    /\ radio' = [radio EXCEPT !.freq = "868.00"]
    /\ pc' = "set_power"
    /\ UNCHANGED <<pinModes, out, elapsed, butA, dispBegin, buf, oled, serial,
                   rssi_val, events, atEntry, validSeen>>

\* rf69.setTxPower(-2, true);
SetTxPower ==
    /\ pc = "set_power"
    /\ radio' = [radio EXCEPT !.power = "-2 high-power"]
    /\ pc' = "set_modem"
    /\ UNCHANGED <<pinModes, out, elapsed, butA, dispBegin, buf, oled, serial,
                   rssi_val, events, atEntry, validSeen>>

\* rf69.setModemConfig(RH_RF69::GFSK_Rb250Fd250);
SetModemConfig ==
    /\ pc = "set_modem"
    /\ radio' = [radio EXCEPT !.modem = "GFSK_Rb250Fd250"]
    /\ pc' = "set_key"
    /\ UNCHANGED <<pinModes, out, elapsed, butA, dispBegin, buf, oled, serial,
                   rssi_val, events, atEntry, validSeen>>

\* rf69.setEncryptionKey(key); and setup() returns
SetEncryptionKey ==
    /\ pc = "set_key"
    /\ radio' = [radio EXCEPT !.key = "set"]
    /\ pc' = "loop"
    /\ UNCHANGED <<pinModes, out, elapsed, butA, dispBegin, buf, oled, serial,
                   rssi_val, events, atEntry, validSeen>>

----------------------------------------------------------------------------
(* display_rssi(rssi_val): bar graph and number, then display.display() *)

display_rssi(v) ==
    LET barwidth == map(v, -100, -20, 0, SCREEN_WIDTH)
    IN  /\ buf' = [kind |-> "RSSI", bar |-> barwidth, num |-> v]
        /\ oled' = buf'

----------------------------------------------------------------------------
(* loop_transmitter(): rf69.send(..); rf69.waitPacketSent(); delay(20); *)

loop_transmitter ==
    /\ radio' = [radio EXCEPT !.sent = TRUE]
    /\ Delay(20)

----------------------------------------------------------------------------
(* loop() and loop_receiver() *)

\* Mutant of loop: the comment markers are swapped and loop() calls
\* loop_transmitter() instead of loop_receiver().
loop_SelectsTransmitter ==
    /\ pc = "loop"
    /\ loop_transmitter
    /\ pc' = "loop"
    /\ UNCHANGED <<pinModes, out, butA, dispBegin, buf, oled, serial, rssi_val,
                   events, atEntry, validSeen>>

\* loop() { loop_receiver(); }: a new iteration enters loop_receiver
loop ==
    /\ pc = "loop"
    /\ pc' = "available"
    /\ rssi_val' = <<>>
    /\ events' = <<>>
    /\ atEntry' = [out |-> out, oled |-> oled, serial |-> serial]
    /\ UNCHANGED <<pinModes, out, elapsed, butA, dispBegin, buf, oled, serial, radio,
                   validSeen>>

\* if (rf69.available())
Available ==
    /\ pc = "available"
    /\ \E avail \in BOOLEAN :
        /\ pc' = IF avail THEN "recv" ELSE "return"
        /\ Log("available", IF avail THEN 1 ELSE 0)
    /\ UNCHANGED <<pinModes, out, elapsed, butA, dispBegin, buf, oled, serial, radio,
                   rssi_val, atEntry, validSeen>>

\* if (rf69.recv(buf, &len)) .. else ..
Recv ==
    /\ pc = "recv"
    /\ \E ok \in BOOLEAN :
        /\ pc' = IF ok THEN "grn_high" ELSE "err_high"
        /\ Log("recv", IF ok THEN 1 ELSE 0)
        /\ validSeen' = (validSeen \/ ok)
    /\ UNCHANGED <<pinModes, out, elapsed, butA, dispBegin, buf, oled, serial, radio,
                   rssi_val, atEntry>>

\* analogWrite(GRN_LED, LED_HIGH);
GreenHigh ==
    /\ pc = "grn_high"
    /\ Write("GRN_LED", LED_HIGH)
    /\ Log("analogWrite GRN_LED", LED_HIGH)
    /\ pc' = "last_rssi"
    /\ UNCHANGED <<pinModes, butA, dispBegin, buf, oled, serial, radio, rssi_val,
                   atEntry, validSeen>>

\* rssi_val = rf69.lastRssi();
LastRssi ==
    /\ pc = "last_rssi"
    /\ \E v \in RssiValues :
        /\ rssi_val' = <<v>>
        /\ Log("lastRssi", v)
    /\ pc' = "println"
    /\ UNCHANGED <<pinModes, out, elapsed, butA, dispBegin, buf, oled, serial, radio,
                   atEntry, validSeen>>

\* Serial.println(rssi_val);
SerialPrintln ==
    /\ pc = "println"
    /\ serial' = [serial EXCEPT !.last = rssi_val]
    /\ Log("Serial.println", rssi_val[1])
    /\ pc' = "display_rssi"
    /\ UNCHANGED <<pinModes, out, elapsed, butA, dispBegin, buf, oled, radio, rssi_val,
                   atEntry, validSeen>>

\* display_rssi(rssi_val);
DisplayRssi ==
    /\ pc = "display_rssi"
    /\ display_rssi(rssi_val[1])
    /\ Log("display_rssi", rssi_val[1])
    /\ pc' = "delay50"
    /\ UNCHANGED <<pinModes, out, elapsed, butA, dispBegin, serial, radio, rssi_val,
                   atEntry, validSeen>>

\* delay(50);
Delay50 ==
    /\ pc = "delay50"
    /\ Delay(50)
    /\ Log("delay", 50)
    /\ pc' = "grn_low"
    /\ UNCHANGED <<pinModes, out, butA, dispBegin, buf, oled, serial, radio, rssi_val,
                   atEntry, validSeen>>

\* Mutant of GreenLow: the LED is not dimmed back down.
GreenLow_StaysBright ==
    /\ pc = "grn_low"
    /\ Write("GRN_LED", LED_HIGH)
    /\ Log("analogWrite GRN_LED", LED_HIGH)
    /\ pc' = "return"
    /\ UNCHANGED <<pinModes, butA, dispBegin, buf, oled, serial, radio, rssi_val,
                   atEntry, validSeen>>

\* analogWrite(GRN_LED, LED_LOW);
GreenLow ==
    /\ pc = "grn_low"
    /\ Write("GRN_LED", LED_LOW)
    /\ Log("analogWrite GRN_LED", LED_LOW)
    /\ pc' = "return"
    /\ UNCHANGED <<pinModes, butA, dispBegin, buf, oled, serial, radio, rssi_val,
                   atEntry, validSeen>>

\* digitalWrite(BI_LEDB, HIGH);
ErrHigh ==
    /\ pc = "err_high"
    /\ Write("BI_LEDB", DigitalDuty("HIGH"))
    /\ Log("digitalWrite BI_LEDB", DigitalDuty("HIGH"))
    /\ pc' = "err_delay"
    /\ UNCHANGED <<pinModes, butA, dispBegin, buf, oled, serial, radio, rssi_val,
                   atEntry, validSeen>>

\* delay(50);
ErrDelay ==
    /\ pc = "err_delay"
    /\ Delay(50)
    /\ Log("delay", 50)
    /\ pc' = "err_low"
    /\ UNCHANGED <<pinModes, out, butA, dispBegin, buf, oled, serial, radio, rssi_val,
                   atEntry, validSeen>>

\* Mutant of ErrLow: the error LED is left on.
ErrLow_StaysOn ==
    /\ pc = "err_low"
    /\ Write("BI_LEDB", DigitalDuty("HIGH"))
    /\ Log("digitalWrite BI_LEDB", DigitalDuty("HIGH"))
    /\ pc' = "return"
    /\ UNCHANGED <<pinModes, butA, dispBegin, buf, oled, serial, radio, rssi_val,
                   atEntry, validSeen>>

\* digitalWrite(BI_LEDB, LOW);
ErrLow ==
    /\ pc = "err_low"
    /\ Write("BI_LEDB", DigitalDuty("LOW"))
    /\ Log("digitalWrite BI_LEDB", DigitalDuty("LOW"))
    /\ pc' = "return"
    /\ UNCHANGED <<pinModes, butA, dispBegin, buf, oled, serial, radio, rssi_val,
                   atEntry, validSeen>>

\* Mutant of Return: control falls back into setup() instead of loop().
Return_RerunsSetup ==
    /\ pc = "return"
    /\ pc' = "pins"
    /\ rssi_val' = <<>>
    /\ UNCHANGED <<pinModes, out, elapsed, butA, dispBegin, buf, oled, serial, radio,
                   events, atEntry, validSeen>>

\* loop_receiver() and loop() return; the Arduino core calls loop() again
Return ==
    /\ pc = "return"
    /\ pc' = "loop"
    /\ rssi_val' = <<>>
    /\ UNCHANGED <<pinModes, out, elapsed, butA, dispBegin, buf, oled, serial, radio,
                   events, atEntry, validSeen>>

----------------------------------------------------------------------------
(* The program *)

Next ==
    \/ SetupDisplay
    \/ DisplayHalt
    \/ SetupPins
    \/ SetupLedsOff
    \/ ButtonCheck
    \/ LockoutMessage
    \/ FlashHigh
    \/ FlashDelay1
    \/ FlashLow
    \/ FlashDelay2
    \/ SerialBegin
    \/ RadioInit
    \/ SetFrequency
    \/ SetTxPower
    \/ SetModemConfig
    \/ SetEncryptionKey
    \/ loop
    \/ Available
    \/ Recv
    \/ GreenHigh
    \/ LastRssi
    \/ SerialPrintln
    \/ DisplayRssi
    \/ Delay50
    \/ GreenLow
    \/ ErrHigh
    \/ ErrDelay
    \/ ErrLow
    \/ Return

Spec == Init /\ [][Next]_vars

\* The processor always executes the next statement: a single sequential thread,
\* no interrupts that the sketch waits on.
FairSpec == Spec /\ WF_vars(Next)

----------------------------------------------------------------------------
(* Vocabulary of the properties *)

LockoutPCs == {"lockout_msg", "flash_high", "flash_delay1", "flash_low", "flash_delay2"}

ServicePCs == {"loop", "available", "recv", "grn_high", "last_rssi", "println",
               "display_rssi", "delay50", "grn_low", "err_high", "err_delay",
               "err_low", "return"}

RadioUntouched ==
    radio = [init |-> "none", freq |-> "unset", power |-> "unset",
             modem |-> "unset", key |-> "unset", sent |-> FALSE]

PinsConfigured ==
    /\ \A p \in OutPins : pinModes[p] = "OUTPUT"
    /\ pinModes["PW_BUTA"] = "INPUT_PULLUP"

LockedOut == butA = "LOW"

\* In lock-out, each write of the flash loop changes the red LED.
FlashWriteToggles ==
    (LockedOut /\ pc \in {"flash_high", "flash_low"})
        => out'["RED_LED"] # out["RED_LED"]

\* In lock-out, the red LED changes only after a 250 ms delay, but for its
\* first change, the first statement of the flash loop.
DelayBeforeChange ==
    (LockedOut /\ out'["RED_LED"] # out["RED_LED"])
        => \/ elapsed = 250
           \/ (pc = "flash_high" /\ elapsed = 0 /\ out["RED_LED"] = 0)

\* In lock-out, a delay statement waits 250 ms and writes no pin.
FlashDelayOnlyWaits ==
    (LockedOut /\ pc \in {"flash_delay1", "flash_delay2"})
        => (out' = out /\ elapsed' = 250)

\* A step of the service stage stays in the service stage and leaves what
\* setup() established as it is.
NoStartupAgain ==
    pc \in ServicePCs
        => /\ pc' \in ServicePCs
           /\ UNCHANGED <<pinModes, butA, dispBegin, radio>>
           /\ (serial.begun <=> serial'.begun)

\* The iteration that has just reached its end took the given branch.
IterationEnded(avail, recvOk) ==
    /\ pc = "return"
    /\ Len(events) >= 1
    /\ events[1] = Ev("available", avail)
    /\ (avail = 1 => Len(events) >= 2 /\ events[2] = Ev("recv", recvOk))

\* The calls of a valid-frame iteration reporting RSSI v, in order.
ValidFrameCalls(v) ==
    << Ev("available", 1), Ev("recv", 1), Ev("analogWrite GRN_LED", LED_HIGH),
       Ev("lastRssi", v), Ev("Serial.println", v), Ev("display_rssi", v),
       Ev("delay", 50), Ev("analogWrite GRN_LED", LED_LOW) >>

\* The calls of a malformed-frame iteration, in order.
MalformedFrameCalls ==
    << Ev("available", 1), Ev("recv", 0), Ev("digitalWrite BI_LEDB", PWM_MAX),
       Ev("delay", 50), Ev("digitalWrite BI_LEDB", 0) >>

----------------------------------------------------------------------------
(* C1 *)

\* C1: if button A read LOW when setup() sampled it, the radio is never
\* enabled: rf69.init, setFrequency, setTxPower, setModemConfig and
\* setEncryptionKey have not been called, setup() has not returned and the
\* service loop has not been entered, in every later state.
C1_InterlockKeepsRadioOff ==
    LockedOut => /\ RadioUntouched
                 /\ pc \in LockoutPCs
                 /\ pc \notin ServicePCs

C1_Witness == LockedOut /\ pc = "flash_low" /\ elapsed = 250

----------------------------------------------------------------------------
(* C2 *)

\* C2: if button A read LOW, the red LED is flashed for ever: it is HIGH
\* infinitely often and LOW infinitely often, every write in the flash loop
\* toggles it (strict alternation), a 250 ms delay lies between consecutive
\* changes, and the green and bi-colour LEDs are never driven on.
C2_RedFlashesForever ==
    /\ [](LockedOut => <>(out["RED_LED"] = PWM_MAX))
    /\ [](LockedOut => <>(out["RED_LED"] = 0))
    /\ [](LockedOut => \A p \in {"GRN_LED", "BI_LEDA", "BI_LEDB"} : out[p] = 0)
    /\ [][FlashWriteToggles]_vars
    /\ [][DelayBeforeChange]_vars
    /\ [][FlashDelayOnlyWaits]_vars

C2_Witness == LockedOut /\ pc = "flash_high" /\ out["RED_LED"] = 0 /\ elapsed = 250

----------------------------------------------------------------------------
(* C3 *)

\* C3 as stated: none of display.begin, rf69.init or Serial.begin is executed
\* before the pins are configured and the button interlock is evaluated.
C3_AsClaimed ==
    (dispBegin # "none" \/ radio.init # "none" \/ serial.begun)
        => (PinsConfigured /\ butA # "unsampled")

\* C3 amended: display.begin is executed first; neither rf69.init nor
\* Serial.begin is executed before the pins are configured and the interlock
\* has passed, and the pins are configured and the button sampled only after
\* display.begin succeeded.
C3_StartupOrdering ==
    /\ (radio.init # "none" \/ serial.begun) => (PinsConfigured /\ butA = "HIGH")
    /\ (PinsConfigured \/ butA # "unsampled") => dispBegin = "ok"
    /\ butA # "unsampled" => PinsConfigured

C3_Witness == pc = "set_freq" /\ serial.begun /\ radio.init # "none" /\ butA = "HIGH"

----------------------------------------------------------------------------
(* C4 *)

\* C4: in an iteration where available() and recv() both succeed the calls
\* are, in order: green LED to LED_HIGH, lastRssi(), the display updated with
\* exactly that value, green LED back to LED_LOW; the green LED is at LED_HIGH
\* from the first write to the second, at LED_LOW at the iteration boundary,
\* and the bi-colour LED is not touched.
C4_ValidFrameHandling ==
    /\ pc \in {"last_rssi", "println", "display_rssi", "delay50", "grn_low"}
         => out["GRN_LED"] = LED_HIGH
    /\ pc \in {"delay50", "grn_low"}
         => oled = [kind |-> "RSSI", bar |-> oled.bar, num |-> rssi_val[1]]
    /\ IterationEnded(1, 1)
         => /\ \E v \in RssiValues :
                 /\ events = ValidFrameCalls(v)
                 /\ oled.kind = "RSSI"
                 /\ oled.num = v
            /\ out["GRN_LED"] = LED_LOW
            /\ out["BI_LEDA"] = atEntry.out["BI_LEDA"]
            /\ out["BI_LEDB"] = atEntry.out["BI_LEDB"]

C4_Witness == IterationEnded(1, 1) /\ oled.num = -57 /\ atEntry.oled.num = -90

----------------------------------------------------------------------------
(* C5 *)

\* C5: in an iteration where available() is true and recv() fails, BI_LEDB is
\* driven HIGH and then LOW again, and nothing else changes: the green LED, the
\* display and the serial output are as they were at the start of the
\* iteration, and recv() is called once only.
C5_MalformedFrameHandling ==
    /\ pc \in {"err_delay", "err_low"} => out["BI_LEDB"] = PWM_MAX
    /\ IterationEnded(1, 0)
         => /\ events = MalformedFrameCalls
            /\ out["BI_LEDB"] = 0
            /\ \A p \in OutPins \ {"BI_LEDB"} : out[p] = atEntry.out[p]
            /\ oled = atEntry.oled
            /\ serial = atEntry.serial
            /\ Cardinality({i \in 1..Len(events) : events[i].call = "recv"}) = 1

C5_Witness == IterationEnded(1, 0) /\ oled.kind = "RSSI" /\ out["GRN_LED"] = LED_LOW

----------------------------------------------------------------------------
(* C6 *)

\* C6: the receiver body is the one loop() selects, so no frame is ever
\* transmitted: rf69.send() and rf69.waitPacketSent() are never called.
C6_NeverTransmits == ~radio.sent

C6_Witness == pc = "return" /\ validSeen /\ Len(events) = 5 /\ ~radio.sent

----------------------------------------------------------------------------
(* C7 *)

\* C7: once setup() has returned every iteration reaches its end and
\* available() is polled again and again; no start-up action runs again (the
\* program stays in the service stage, pin modes, button sample, display and
\* serial start-up and the radio configuration stay as they are); and an
\* iteration in which available() is false changes no LED, no display content
\* and prints nothing.
C7_ServiceLoop ==
    /\ [](pc \in ServicePCs => <>(pc = "return"))
    /\ [](pc \in ServicePCs => <>(pc = "available"))
    /\ [][NoStartupAgain]_vars
    /\ [](IterationEnded(0, 0)
            => /\ events = <<Ev("available", 0)>>
               /\ out = atEntry.out
               /\ oled = atEntry.oled
               /\ buf = atEntry.oled
               /\ serial = atEntry.serial)

C7_Witness == IterationEnded(0, 0) /\ oled.kind = "RSSI" /\ validSeen

----------------------------------------------------------------------------
(* C8 *)

\* C8: if display.begin() returned false the sketch spins at that point: no
\* pin is configured, no LED is driven, the button is not sampled, the radio
\* and the serial port are not initialised and the service loop is not entered.
C8_DisplayFailureHalts ==
    dispBegin = "failed"
        => /\ pc = "halt"
           /\ \A p \in Pins : pinModes[p] = "unset"
           /\ \A p \in OutPins : out[p] = 0
           /\ butA = "unsampled"
           /\ RadioUntouched
           /\ ~serial.begun

C8_Witness == dispBegin = "failed" /\ pc = "halt"

----------------------------------------------------------------------------
(* C9 *)

\* C9 as stated: the green LED is lit only if rf69.init() returned true, in
\* every state, whatever the radio later reports.
C9_AsClaimed == out["GRN_LED"] # 0 => radio.init = "ok"

\* C9 amended: the green LED is lit only if rf69.init() returned true or a
\* valid frame has been received since; so when rf69.init() fails the green
\* LED is off at the end of setup() and stays off until the first valid frame.
C9_GreenLitOnlyAfterInitOrFrame ==
    /\ out["GRN_LED"] # 0 => (radio.init = "ok" \/ validSeen)
    /\ (pc = "loop" /\ ~validSeen) => (out["GRN_LED"] # 0 <=> radio.init = "ok")

C9_Witness ==
    radio.init = "failed" /\ validSeen /\ pc = "return" /\ out["GRN_LED"] = LED_LOW

----------------------------------------------------------------------------
(* C10 *)

\* C10: for every RSSI value the radio can report, the bar width drawn by
\* display_rssi() lies in 0..SCREEN_WIDTH, is 0 at -100 dBm and SCREEN_WIDTH
\* at -20 dBm.
C10_BarwidthOnScreen ==
    oled.kind = "RSSI"
        => /\ 0 <= oled.bar
           /\ oled.bar <= SCREEN_WIDTH
           /\ (oled.num = -100 => oled.bar = 0)
           /\ (oled.num = -20 => oled.bar = SCREEN_WIDTH)

====
